---- MODULE Spec2Model ----
(***************************************************************************)
(* The BadgerDB buffer manager (src/src/buffer.cpp): a pool of numBufs     *)
(* frames, a descriptor per frame, a hash table from (file, pageNo) to     *)
(* frame, and a clock hand.  Every public operation of BufMgr is one       *)
(* action; its body is the composition, in program order, of the           *)
(* statements of the method, each an operator on a machine record m that   *)
(* carries the manager's fields, the files, the exception in flight and    *)
(* the log of collaborator calls made so far.                              *)
(***************************************************************************)
EXTENDS Integers, Sequences, FiniteSets, TLC

\* ------------------------------------------------------------------ bounds
MaxPin   == 2        \* readPage stops raising a pin count at MaxPin
MaxSteps == 7        \* calls made on one manager

PoolSizes == {1, 2}            \* the values of bufs the constructor is given
Files   == {"f1", "f2"}
Data    == {"a", "b"}          \* page contents; "a" is a freshly allocated page
PageIds == {1, 2}              \* the page numbers a file hands out

NULL           == "NULL"       \* the null File*
INVALID_NUMBER == 0            \* Page::INVALID_NUMBER
NoData         == "none"

VARIABLES numBufs, bufDescTable, bufPool, hashTable, clockHand, fid, disk,
          last, pins, committed, steps

vars == <<numBufs, bufDescTable, bufPool, hashTable, clockHand, fid, disk,
          last, pins, committed, steps>>

Keys == Files \X PageIds

\* ---------------------------------------------------------- BufDesc, Page
\* BufDesc::Clear()
Clear(d) == [d EXCEPT !.pinCnt = 0, !.file = NULL, !.pageNo = INVALID_NUMBER,
                      !.dirty = FALSE, !.refbit = FALSE, !.valid = FALSE]

\* BufDesc::Set(file, pageNo)
Set(d, f, p) == [d EXCEPT !.file = f, !.pageNo = p, !.pinCnt = 1,
                          !.dirty = FALSE, !.valid = TRUE, !.refbit = FALSE]

\* BufDesc::BufDesc() followed by the constructor's loop body for frame i
NewDesc(i) == [frameNo |-> i, valid |-> FALSE, dirty |-> FALSE, refbit |-> FALSE,
               pinCnt |-> 0, file |-> NULL, pageNo |-> INVALID_NUMBER]

\* Page::Page(): a page that belongs to no file
NewPage == [num |-> INVALID_NUMBER, data |-> "a"]

\* ------------------------------------------------------- machine plumbing
Running(m) == m.exc = "none"

Throw(m, e) == [m EXCEPT !.exc = e]

Emit(m, ev) == [m EXCEPT !.log = Append(@, ev)]

\* ------------------------------------------------------------ BufHashTbl
\* hashTable->lookup(file, pageNo, frameNo): found or HashNotFoundException
Present(h, f, p) == <<f, p>> \in DOMAIN h

hashInsert(m, f, p, i) ==
    IF ~Running(m) THEN m
    ELSE IF Present(m.hashTable, f, p) THEN Throw(m, "HashAlreadyPresent")
    ELSE [m EXCEPT !.hashTable =
             [k \in DOMAIN m.hashTable \cup {<<f, p>>} |->
                 IF k = <<f, p>> THEN i ELSE m.hashTable[k]]]

hashRemove(m, f, p) ==
    IF ~Running(m) THEN m
    ELSE IF ~Present(m.hashTable, f, p) THEN Throw(m, "HashNotFound")
    ELSE [m EXCEPT !.hashTable =
             [k \in DOMAIN m.hashTable \ {<<f, p>>} |-> m.hashTable[k]]]

\* ------------------------------------------------------------------ File
\* a file is a function from PageIds to the data of the page, or NoData
Exists(m, f, p) == p \in PageIds /\ m.disk[f][p] # NoData

FreeIds(m, f) == {p \in PageIds : m.disk[f][p] = NoData}

Least(S) == CHOOSE x \in S : \A y \in S : x <= y

\* file->readPage(pageNo): fails if the page does not exist
fileReadPage(m, f, p) ==
    IF ~Running(m) THEN m
    ELSE IF ~Exists(m, f, p) THEN Throw(m, "InvalidPage")
    ELSE Emit([m EXCEPT !.tPage = [num |-> p, data |-> m.disk[f][p]]],
              <<"readPage", f, p>>)

\* file->writePage(page): persists a page keyed by its own page number
fileWritePage(m, f, pg) ==
    IF ~Running(m) THEN m
    ELSE IF ~Exists(m, f, pg.num) THEN Throw(m, "InvalidPage")
    ELSE Emit([m EXCEPT !.disk[f][pg.num] = pg.data], <<"writePage", f, pg>>)

\* file->allocatePage(): a new page with a freshly assigned number
fileAllocatePage(m, f) ==
    IF ~Running(m) THEN m
    ELSE LET p == Least(FreeIds(m, f))
         IN  Emit([m EXCEPT !.disk[f][p] = "a",
                            !.tPage = [num |-> p, data |-> "a"]],
                  <<"allocatePage", f, p>>)

\* file->deletePage(pageNo): permanently removes the page
fileDeletePage(m, f, p) ==
    IF ~Running(m) THEN m
    ELSE Emit([m EXCEPT !.disk[f][p] = NoData], <<"deletePage", f, p>>)

\* --------------------------------------------------------------- BufMgr
\* bufDescTable[i].Clear()
ClearFrame(m, i) ==
    IF ~Running(m) THEN m
    ELSE Emit([m EXCEPT !.bufDescTable[i] = Clear(@)], <<"Clear", i>>)

\* bufPool[fid] = page
StorePage(m) ==
    IF ~Running(m) THEN m
    ELSE Emit([m EXCEPT !.bufPool[m.fid] = m.tPage], <<"store", m.fid>>)

\* bufDescTable[fid].Set(file, pageNo)
SetFrame(m, f, p) ==
    IF ~Running(m) THEN m
    ELSE [m EXCEPT !.bufDescTable[m.fid] = Set(@, f, p)]

advanceClock(m) ==
    [m EXCEPT !.clockHand = (m.clockHand + 1) % m.numBufs,
              !.advances = @ + 1]

\* evictVictim, leaving the victim's entry in the hash table
evictVictim_KeepsHash(m) ==
    LET c  == m.clockHand
        d  == m.bufDescTable[c]
        m1 == [m EXCEPT !.found = TRUE, !.victim = d,
                        !.evicted = IF d.dirty THEN "dirty" ELSE "clean"]
        m3 == IF d.dirty THEN fileWritePage(m1, d.file, m1.bufPool[c])
                         ELSE ClearFrame(m1, c)
    IN  IF Running(m3) THEN [m3 EXCEPT !.fid = m3.bufDescTable[c].frameNo]
                       ELSE m3

\* evictVictim, clearing the descriptor before it looks at the dirty flag
evictVictim_ClearFirst(m) ==
    LET c  == m.clockHand
        d  == m.bufDescTable[c]
        m1 == [m EXCEPT !.found = TRUE, !.victim = d,
                        !.evicted = IF d.dirty THEN "dirty" ELSE "clean"]
        m2 == ClearFrame(hashRemove(m1, d.file, d.pageNo), c)
        m3 == IF m2.bufDescTable[c].dirty
              THEN fileWritePage(m2, d.file, m2.bufPool[c])
              ELSE m2
    IN  IF Running(m3) THEN [m3 EXCEPT !.fid = m3.bufDescTable[c].frameNo]
                       ELSE m3
\* evictVictim, without the found = true of line 117
evictVictim_NotFound(m) ==
    LET c  == m.clockHand
        d  == m.bufDescTable[c]
        m1 == [m EXCEPT !.victim = d,
                        !.evicted = IF d.dirty THEN "dirty" ELSE "clean"]
        m2 == hashRemove(m1, d.file, d.pageNo)
        m3 == IF d.dirty THEN fileWritePage(m2, d.file, m2.bufPool[c])
                         ELSE ClearFrame(m2, c)
    IN  IF Running(m3) THEN [m3 EXCEPT !.fid = m3.bufDescTable[c].frameNo]
                       ELSE m3

\* lines 117-126: the frame under the hand is the victim
evictVictim(m) ==
    LET c  == m.clockHand
        d  == m.bufDescTable[c]
        m1 == [m EXCEPT !.found = TRUE, !.victim = d,
                        !.evicted = IF d.dirty THEN "dirty" ELSE "clean"]
        m2 == hashRemove(m1, d.file, d.pageNo)
        m3 == IF d.dirty THEN fileWritePage(m2, d.file, m2.bufPool[c])
                         ELSE ClearFrame(m2, c)
    IN  IF Running(m3) THEN [m3 EXCEPT !.fid = m3.bufDescTable[c].frameNo]
                       ELSE m3

\* allocBufVisit, without the test of line 115
allocBufVisit_NoPinCheck(m, starting) ==
    LET m1 == advanceClock(m)
        c  == m1.clockHand
        d  == m1.bufDescTable[c]
    IN  IF d.valid
        THEN IF ~d.refbit
             THEN evictVictim(m1)
             ELSE [m1 EXCEPT !.bufDescTable[c].refbit = FALSE]
        ELSE [m1 EXCEPT !.found = TRUE, !.fid = d.frameNo]

\* allocBufVisit, with line 115 reading pinCnt <= 1
allocBufVisit_PinLeqOne(m, starting) ==
    LET m1 == advanceClock(m)
        c  == m1.clockHand
        d  == m1.bufDescTable[c]
    IN  IF d.valid
        THEN IF ~d.refbit
             THEN IF d.pinCnt <= 1
                  THEN evictVictim(m1)
                  ELSE IF starting = c /\ ~m1.found
                       THEN Throw(m1, "BufferExceeded")
                       ELSE m1
             ELSE [m1 EXCEPT !.bufDescTable[c].refbit = FALSE]
        ELSE [m1 EXCEPT !.found = TRUE, !.fid = d.frameNo]
\* allocBufVisit, with the pin test of line 115 taken before the refbit test of
\* line 113: an unpinned frame is evicted whether referenced or not
allocBufVisit_NoSecondChance(m, starting) ==
    LET m1 == advanceClock(m)
        c  == m1.clockHand
        d  == m1.bufDescTable[c]
    IN  IF d.valid
        THEN IF d.pinCnt = 0
             THEN evictVictim(m1)
             ELSE IF ~d.refbit
                  THEN IF starting = c /\ ~m1.found
                       THEN Throw(m1, "BufferExceeded")
                       ELSE m1
                  ELSE [m1 EXCEPT !.bufDescTable[c].refbit = FALSE]
        ELSE [m1 EXCEPT !.found = TRUE, !.fid = d.frameNo]

\* lines 112-143: one turn of the while loop
allocBufVisit(m, starting) ==
    LET m1 == advanceClock(m)
        c  == m1.clockHand
        d  == m1.bufDescTable[c]
    IN  IF d.valid
        THEN IF ~d.refbit
             THEN IF d.pinCnt = 0
                  THEN evictVictim(m1)
                  ELSE IF starting = c /\ ~m1.found
                       THEN Throw(m1, "BufferExceeded")
                       ELSE m1
             ELSE [m1 EXCEPT !.bufDescTable[c].refbit = FALSE]
        ELSE [m1 EXCEPT !.found = TRUE, !.fid = d.frameNo]

RECURSIVE allocBufLoop(_, _)
allocBufLoop(m, starting) ==
    IF ~Running(m) \/ m.found THEN m
    ELSE allocBufLoop(allocBufVisit(m, starting), starting)

allocBuf(m) ==
    IF ~Running(m) THEN m
    ELSE LET m1 == allocBufLoop([m EXCEPT !.found = FALSE], m.clockHand)
         IN  ClearFrame(m1, m1.clockHand)

\* readPageHit, without line 173
readPageHit_NoPin(m) ==
    [m EXCEPT !.bufDescTable[m.fid].refbit = TRUE]
\* readPageHit, calling Set on the frame as the miss path does at line 169
readPageHit_Set(m) ==
    SetFrame(m, m.bufDescTable[m.fid].file, m.bufDescTable[m.fid].pageNo)

\* lines 171-174: the page is in the pool, in frame fid
readPageHit(m) ==
    [m EXCEPT !.bufDescTable[m.fid].refbit = TRUE,
              !.bufDescTable[m.fid].pinCnt = @ + 1]

\* lines 165-169: the page is not in the pool
readPageMiss(m, f, p) ==
    LET m1 == allocBuf(m)
        m2 == fileReadPage(m1, f, p)
        m3 == StorePage(m2)
        m4 == hashInsert(m3, f, p, m3.fid)
    IN  SetFrame(m4, f, p)

readPage(m, f, p) ==
    IF Present(m.hashTable, f, p)
    THEN readPageHit([m EXCEPT !.fid = m.hashTable[<<f, p>>], !.hit = TRUE])
    ELSE readPageMiss(m, f, p)

\* unPinFound, without lines 201-203
unPinFound_DropsDirty(m, dirty) ==
    IF m.bufDescTable[m.fid].pinCnt = 0
    THEN Throw(m, "PageNotPinned")
    ELSE [m EXCEPT !.bufDescTable[m.fid].pinCnt = @ - 1]

\* unPinFound, without the test of line 196
unPinFound_NoCheck(m, dirty) ==
    [m EXCEPT !.bufDescTable[m.fid].pinCnt = @ - 1,
              !.bufDescTable[m.fid].dirty = IF dirty THEN TRUE ELSE @]

\* lines 196-204: the page is in the pool, in frame fid
unPinFound(m, dirty) ==
    IF m.bufDescTable[m.fid].pinCnt = 0
    THEN Throw(m, "PageNotPinned")
    ELSE [m EXCEPT !.bufDescTable[m.fid].pinCnt = @ - 1,
                   !.bufDescTable[m.fid].dirty = IF dirty THEN TRUE ELSE @]
\* unPinPage, going on with the frame number left in fid by an earlier call
\* when the lookup of line 193 finds no entry
unPinPage_StaleFid(m, f, p, dirty) ==
    IF Present(m.hashTable, f, p)
    THEN unPinFound([m EXCEPT !.fid = m.hashTable[<<f, p>>], !.hit = TRUE], dirty)
    ELSE unPinFound(m, dirty)

unPinPage(m, f, p, dirty) ==
    IF Present(m.hashTable, f, p)
    THEN unPinFound([m EXCEPT !.fid = m.hashTable[<<f, p>>], !.hit = TRUE], dirty)
    ELSE m

\* flushFrame, without lines 233-237
flushFrame_NoWrite(m, f, i) ==
    LET d == m.bufDescTable[i]
    IN  IF d.file # f THEN m
        ELSE IF d.pinCnt # 0 THEN Throw(m, "PagePinned")
        ELSE IF ~d.valid THEN Throw(m, "BadBuffer")
        ELSE ClearFrame(hashRemove(m, d.file, d.pageNo), i)

\* flushFrame, without line 239
flushFrame_NoClear(m, f, i) ==
    LET d == m.bufDescTable[i]
    IN  IF d.file # f THEN m
        ELSE IF d.pinCnt # 0 THEN Throw(m, "PagePinned")
        ELSE IF ~d.valid THEN Throw(m, "BadBuffer")
        ELSE LET m1 == IF d.dirty
                       THEN LET w == fileWritePage(m, d.file, m.bufPool[i])
                            IN  IF Running(w)
                                THEN [w EXCEPT !.bufDescTable[i].dirty = FALSE]
                                ELSE w
                       ELSE m
             IN  hashRemove(m1, d.file, d.pageNo)

\* lines 223-240: the body of flushFile's loop for frame i
flushFrame(m, f, i) ==
    LET d == m.bufDescTable[i]
    IN  IF d.file # f THEN m
        ELSE IF d.pinCnt # 0 THEN Throw(m, "PagePinned")
        ELSE IF ~d.valid THEN Throw(m, "BadBuffer")
        ELSE LET m1 == IF d.dirty
                       THEN LET w == fileWritePage(m, d.file, m.bufPool[i])
                            IN  IF Running(w)
                                THEN [w EXCEPT !.bufDescTable[i].dirty = FALSE]
                                ELSE w
                       ELSE m
                 m2 == hashRemove(m1, d.file, d.pageNo)
             IN  ClearFrame(m2, i)

RECURSIVE flushFrom(_, _, _)
flushFrom(m, f, i) ==
    IF ~Running(m) \/ i >= m.numBufs THEN m
    ELSE flushFrom(flushFrame(m, f, i), f, i + 1)

flushFile(m, f) == flushFrom(m, f, 0)
\* disposeFrame, without the test of lines 78-80
disposeFrame_NoPinCheck(m, f, p, i) ==
    LET d == m.bufDescTable[i]
    IN  IF f = d.file /\ p = d.pageNo
        THEN hashRemove(ClearFrame(m, i), f, p)
        ELSE m
\* disposeFrame, with line 82 resetting the valid bit alone instead of Clear()
disposeFrame_Invalidate(m, f, p, i) ==
    LET d == m.bufDescTable[i]
    IN  IF f = d.file /\ p = d.pageNo
        THEN IF d.pinCnt > 0 THEN Throw(m, "PagePinned")
             ELSE hashRemove([m EXCEPT !.bufDescTable[i].valid = FALSE], f, p)
        ELSE m

\* lines 76-84: the body of disposePage's loop for frame i
disposeFrame(m, f, p, i) ==
    LET d == m.bufDescTable[i]
    IN  IF f = d.file /\ p = d.pageNo
        THEN IF d.pinCnt > 0 THEN Throw(m, "PagePinned")
             ELSE hashRemove(ClearFrame(m, i), f, p)
        ELSE m

RECURSIVE disposeFrom(_, _, _, _)
disposeFrom(m, f, p, i) ==
    IF ~Running(m) \/ i >= m.numBufs THEN m
    ELSE disposeFrom(disposeFrame(m, f, p, i), f, p, i + 1)

disposePage(m, f, p) == fileDeletePage(disposeFrom(m, f, p, 0), f, p)

allocPage(m, f) ==
    LET m1 == fileAllocatePage(m, f)
        m2 == allocBuf(m1)
        m3 == StorePage(m2)
        m4 == hashInsert(m3, f, m3.bufPool[m3.fid].num, m3.fid)
    IN  SetFrame(m4, f, m4.bufPool[m4.fid].num)

\* lines 56-58: the body of the destructor's loop for frame i
destroyFrame(m, i) ==
    IF m.bufDescTable[i].dirty THEN flushFile(m, m.bufDescTable[i].file)
                               ELSE m

RECURSIVE destroyFrom(_, _)
destroyFrom(m, i) ==
    IF ~Running(m) \/ i >= m.numBufs THEN m
    ELSE destroyFrom(destroyFrame(m, i), i + 1)

\* BufMgr::~BufMgr(): the pool, the table and the hash table are then freed
destroy(m) == destroyFrom(m, 0)

\* ------------------------------------------------------------ the system
\* the manager and the files as the next call finds them
Begin == [numBufs |-> numBufs, bufDescTable |-> bufDescTable, bufPool |-> bufPool,
          hashTable |-> hashTable, clockHand |-> clockHand, fid |-> fid,
          disk |-> disk, exc |-> "none", log |-> <<>>, tPage |-> NewPage,
          found |-> FALSE, hit |-> FALSE, evicted |-> "none", victim |-> NewDesc(0),
          advances |-> 0]

Frames == 0 .. numBufs - 1

\* the manager is not destroyed yet and may be given one more call
CanCall == last.op # "~BufMgr" /\ steps < MaxSteps

Resident(k) == Present(hashTable, k[1], k[2])

\* what the call just made was, and how it ended
Wrote(log) == \E n \in DOMAIN log : log[n][1] = "writePage"

Outcome(m, op, f) ==
    [op |-> op, flushed |-> IF op = "flushFile" THEN f ELSE NULL, exc |-> m.exc,
     hit |-> m.hit, evicted |-> m.evicted, wrote |-> Wrote(m.log),
     again |-> op = "flushFile" /\ last.flushed = f /\ last.exc = "none",
     advances |-> m.advances]

Commit(m, op, f) ==
    /\ numBufs'      = m.numBufs
    /\ bufDescTable' = m.bufDescTable
    /\ bufPool'      = m.bufPool
    /\ hashTable'    = m.hashTable
    /\ clockHand'    = m.clockHand
    /\ fid'          = m.fid
    /\ disk'         = m.disk
    /\ last'         = Outcome(m, op, f)
    /\ steps'        = steps + 1

\* BufMgr::BufMgr(bufs), over files that hold no page yet
Init ==
    /\ numBufs \in PoolSizes
    /\ bufDescTable = [i \in 0 .. numBufs - 1 |-> NewDesc(i)]
    /\ bufPool = [i \in 0 .. numBufs - 1 |-> NewPage]
    /\ hashTable = <<>>
    /\ clockHand = numBufs - 1
    /\ fid = 0
    /\ disk = [f \in Files |-> [p \in PageIds |-> NoData]]
    /\ last = [op |-> "BufMgr", flushed |-> NULL, exc |-> "none", hit |-> FALSE,
               evicted |-> "none", wrote |-> FALSE, again |-> FALSE, advances |-> 0]
    /\ pins = [k \in Keys |-> 0]
    /\ committed = [k \in Keys |-> NoData]
    /\ steps = 0

\* the pin count the calls made so far account for, per resident page
PinsAfter(m, k, n) == [j \in Keys |-> IF ~Present(m.hashTable, j[1], j[2]) THEN 0
                                      ELSE IF j = k THEN n ELSE pins[j]]

ReadPage(f, p) ==
    /\ CanCall
    /\ Resident(<<f, p>>) => bufDescTable[hashTable[<<f, p>>]].pinCnt < MaxPin
    /\ LET m == readPage(Begin, f, p)
       IN  /\ Commit(m, "readPage", f)
           /\ pins' = PinsAfter(m, <<f, p>>,
                         IF ~Running(m) THEN pins[<<f, p>>]
                         ELSE IF m.hit THEN pins[<<f, p>>] + 1 ELSE 1)
           /\ UNCHANGED committed

AllocPage(f) ==
    /\ CanCall
    /\ FreeIds(Begin, f) # {}
    /\ LET m == allocPage(Begin, f)
           p == Least(FreeIds(Begin, f))
       IN  /\ Commit(m, "allocPage", f)
           /\ pins' = PinsAfter(m, <<f, p>>, IF Running(m) THEN 1 ELSE 0)
           /\ UNCHANGED committed

UnPinPage(f, p, dirty) ==
    LET m == unPinPage(Begin, f, p, dirty)
        k == <<f, p>>
    IN  /\ CanCall
        /\ Commit(m, "unPinPage", f)
        /\ pins' = PinsAfter(m, k, IF Running(m) /\ m.hit THEN pins[k] - 1
                                                        ELSE pins[k])
        /\ committed' = IF Running(m) /\ m.hit /\ dirty
                        THEN [committed EXCEPT ![k] = bufPool[m.fid].data]
                        ELSE committed

DisposePage(f, p) ==
    LET m == disposePage(Begin, f, p)
    IN  /\ CanCall
        /\ Commit(m, "disposePage", f)
        /\ pins' = PinsAfter(m, <<f, p>>, pins[<<f, p>>])
        /\ committed' = IF Running(m) THEN [committed EXCEPT ![<<f, p>>] = NoData]
                                      ELSE committed

FlushFile(f) ==
    LET m == flushFile(Begin, f)
    IN  /\ CanCall
        /\ Commit(m, "flushFile", f)
        /\ pins' = PinsAfter(m, <<f, 1>>, pins[<<f, 1>>])
        /\ UNCHANGED committed

\* a holder of a pin writes the page through the Page* readPage/allocPage gave
Modify(f, p, v) ==
    /\ CanCall
    /\ steps' = steps + 1
    /\ Resident(<<f, p>>)
    /\ LET i == hashTable[<<f, p>>]
       IN  /\ bufDescTable[i].pinCnt > 0
           /\ bufPool[i].data # v
           /\ bufPool' = [bufPool EXCEPT ![i].data = v]
    /\ committed' = [committed EXCEPT ![<<f, p>>] = NoData]
    /\ last' = [op |-> "modify", flushed |-> NULL, exc |-> "none", hit |-> TRUE,
                evicted |-> "none", wrote |-> FALSE, again |-> FALSE, advances |-> 0]
    /\ UNCHANGED <<numBufs, bufDescTable, hashTable, clockHand, fid, disk, pins>>

\* the manager goes out of scope, whatever pins its callers still hold
Destroy ==
    LET m == destroy(Begin)
    IN  /\ CanCall
        /\ Commit(m, "~BufMgr", NULL)
        /\ pins' = PinsAfter(m, <<"f1", 1>>, pins[<<"f1", 1>>])
        /\ UNCHANGED committed

Next ==
    \/ \E f \in Files, p \in PageIds : ReadPage(f, p)
    \/ \E f \in Files : AllocPage(f)
    \/ \E f \in Files, p \in PageIds, dirty \in BOOLEAN : UnPinPage(f, p, dirty)
    \/ \E f \in Files, p \in PageIds : DisposePage(f, p)
    \/ \E f \in Files : FlushFile(f)
    \/ \E f \in Files, p \in PageIds, v \in Data : Modify(f, p, v)
    \/ Destroy

Spec == Init /\ [][Next]_vars

\* ------------------------------------------------------------ properties
Key(d) == <<d.file, d.pageNo>>

Pinned(i) == bufDescTable[i].valid /\ bufDescTable[i].pinCnt > 0

Loads == {"readPage", "allocPage"}

\* a frame that is pinned holds the same page, under the same hash entry,
\* after the step
PinnedStays ==
    \A i \in Frames : Pinned(i) =>
        /\ bufDescTable'[i].valid
        /\ Key(bufDescTable'[i]) = Key(bufDescTable[i])
        /\ Key(bufDescTable[i]) \in DOMAIN hashTable'
        /\ hashTable'[Key(bufDescTable[i])] = i

\* the descriptor allocBuf found under the hand when it chose its victim
VictimEvictable(m) ==
    m.evicted # "none" =>
        /\ m.victim.valid /\ m.victim.pinCnt = 0 /\ ~m.victim.refbit
        /\ m.victim.frameNo = m.clockHand
        /\ bufDescTable[m.clockHand].valid /\ bufDescTable[m.clockHand].pinCnt = 0

VictimsEvictable ==
    /\ \A f \in Files, p \in PageIds :
           (last'.op = "readPage" /\ last'.evicted # "none" /\ ReadPage(f, p)) =>
               VictimEvictable(readPage(Begin, f, p))
    /\ \A f \in Files :
           (last'.op = "allocPage" /\ last'.evicted # "none" /\ AllocPage(f)) =>
               VictimEvictable(allocPage(Begin, f))

\* C1: no call evicts or clears a frame whose pinCnt is above 0: the frame keeps
\* its page and its hash entry across every call, and the victim allocBuf
\* chooses is a valid frame with pinCnt = 0 and refbit = false.
C1_PinnedNeverEvicted == [][PinnedStays /\ VictimsEvictable]_vars

\* a load evicted a page while another frame stayed pinned
C1_Witness ==
    /\ last.evicted # "none" /\ last.exc = "none"
    /\ \E i \in Frames : i # clockHand /\ Pinned(i)

\* C2: after every call, failed ones included, no two valid frames hold the same
\* (file, pageNo) and the hash table maps (file, pageNo) to a frame exactly when
\* that frame is valid and holds that page.
C2_HashIsInverse ==
    /\ \A i, j \in Frames :
           (bufDescTable[i].valid /\ bufDescTable[j].valid
              /\ Key(bufDescTable[i]) = Key(bufDescTable[j])) => i = j
    /\ DOMAIN hashTable \subseteq Keys
    /\ \A k \in DOMAIN hashTable : hashTable[k] \in Frames
    /\ \A k \in Keys, i \in Frames :
           (k \in DOMAIN hashTable /\ hashTable[k] = i)
               <=> (bufDescTable[i].valid /\ Key(bufDescTable[i]) = k)

\* a flushFile that wrote one page back and then met a pinned one
C2_Witness ==
    /\ last.op = "flushFile" /\ last.exc = "PagePinned" /\ last.wrote
    /\ DOMAIN hashTable # {}

\* C3: a readPage that has to load a page which was released with dirty = true,
\* and not written or disposed of since, returns the content it was released with.
C3_RoundTrip ==
    [][(last'.op = "readPage" /\ last'.exc = "none" /\ ~last'.hit) =>
          LET k == Key(bufDescTable'[fid'])
          IN  committed[k] # NoData => bufPool'[fid'].data = committed[k]]_vars

\* a page released dirty with content "b" went out of the pool and was read back
C3_Witness ==
    /\ last.op = "readPage" /\ last.exc = "none" /\ ~last.hit
    /\ bufDescTable[fid].valid
    /\ committed[Key(bufDescTable[fid])] = "b"
    /\ bufPool[fid].data = "b"

\* the calls the file saw, in order, when the victim under the hand was dirty / clean
WriteBackFirst(m) ==
    LET c == m.clockHand
        w == {n \in DOMAIN m.log :
                 m.log[n] = <<"writePage", bufDescTable[c].file, bufPool[c]>>}
    IN  m.evicted # "none" =>
            IF bufDescTable[c].dirty
            THEN /\ w # {}
                 /\ \A n \in DOMAIN m.log :
                        m.log[n] \in {<<"Clear", c>>, <<"store", c>>} =>
                            \E x \in w : x < n
            ELSE ~Wrote(m.log)

\* C4: when allocBuf's victim is dirty, writePage is called with the frame's
\* content before the descriptor is cleared and before the frame is stored to;
\* a clean victim causes no write.
C4_WriteBackBeforeReuse ==
    [][/\ \A f \in Files, p \in PageIds :
              (last'.op = "readPage" /\ last'.evicted # "none" /\ ReadPage(f, p)) =>
                  WriteBackFirst(readPage(Begin, f, p))
       /\ \A f \in Files :
              (last'.op = "allocPage" /\ last'.evicted # "none" /\ AllocPage(f)) =>
                  WriteBackFirst(allocPage(Begin, f))]_vars

\* a dirty victim was evicted and its content "b" is in the file
C4_Witness ==
    /\ last.evicted = "dirty" /\ last.exc = "none" /\ last.wrote
    /\ \E k \in Keys : /\ ~Resident(k) /\ committed[k] = "b"
                       /\ disk[k[1]][k[2]] = "b"

AllPinned == \A i \in Frames : Pinned(i)

\* C5: a readPage miss or an allocPage raises BufferExceededException only when
\* every frame is valid and pinned at the time of the call.
C5_ExceededOnlyWhenAllPinned ==
    [][(last'.op \in Loads /\ last'.exc = "BufferExceeded") => AllPinned]_vars

\* C6: when every frame is valid and pinned, a readPage of a page that is not in
\* the pool, and an allocPage, fail with BufferExceededException.
C6_Exhaustion ==
    [][(AllPinned /\ last'.op \in Loads /\ ~last'.hit) =>
           last'.exc = "BufferExceeded"]_vars

\* a pool of two frames, both pinned, refused a third page
C6_Witness ==
    /\ last.op \in Loads /\ last.exc = "BufferExceeded"
    /\ numBufs = 2 /\ AllPinned

\* the pin count of every page in the pool is the one the calls account for
PinsAccounted ==
    \A k \in DOMAIN hashTable : bufDescTable[hashTable[k]].pinCnt = pins[k]

\* C7: a successful readPage raises the pin count of its page by one (to 1 when
\* it had to load the page), a successful allocPage leaves the new page in the
\* pool with pinCnt = 1, and the pinCnt of a page in the pool is the number of
\* successful readPage/allocPage calls less the successful unPinPage calls on it
\* since it was loaded.
C7_PinCounting ==
    [][/\ \A f \in Files, p \in PageIds :
              (last'.op = "readPage" /\ last'.exc = "none" /\ ReadPage(f, p)) =>
                  /\ <<f, p>> \in DOMAIN hashTable'
                  /\ bufDescTable'[hashTable'[<<f, p>>]].pinCnt =
                         IF Resident(<<f, p>>)
                         THEN bufDescTable[hashTable[<<f, p>>]].pinCnt + 1
                         ELSE 1
       /\ \A f \in Files :
              (last'.op = "allocPage" /\ last'.exc = "none" /\ AllocPage(f)) =>
                  LET k == <<f, Least(FreeIds(Begin, f))>>
                  IN  /\ k \in DOMAIN hashTable'
                      /\ bufDescTable'[hashTable'[k]].pinCnt = 1
       /\ PinsAccounted']_vars

\* a page read twice holds two pins
C7_Witness ==
    /\ last.op = "readPage" /\ last.exc = "none" /\ last.hit
    /\ bufDescTable[fid].pinCnt = 2
    /\ pins[Key(bufDescTable[fid])] = 2

\* C8: no pin count is ever negative, and unPinPage on a page that is in the pool
\* with pinCnt = 0 fails with PageNotPinnedException and changes no descriptor.
C8_NoNegativePin ==
    [][/\ \A i \in Frames : bufDescTable[i].pinCnt >= 0 /\ bufDescTable'[i].pinCnt >= 0
       /\ \A f \in Files, p \in PageIds, dirty \in BOOLEAN :
              (/\ last'.op = "unPinPage"
               /\ Resident(<<f, p>>)
               /\ bufDescTable[hashTable[<<f, p>>]].pinCnt = 0
               /\ UnPinPage(f, p, dirty)) =>
                  /\ last'.exc = "PageNotPinned"
                  /\ bufDescTable' = bufDescTable]_vars

\* an unPinPage of an unpinned page was refused
C8_Witness ==
    /\ last.op = "unPinPage" /\ last.exc = "PageNotPinned"
    /\ bufDescTable[fid].valid /\ bufDescTable[fid].pinCnt = 0

\* what a successful flushFile(f) leaves
FlushedOut(f) ==
    /\ \A i \in Frames : bufDescTable'[i].file # f
    /\ \A k \in DOMAIN hashTable' : k[1] # f
    /\ \A i \in Frames :
           (bufDescTable[i].file = f /\ bufDescTable[i].dirty) =>
               disk'[f][bufDescTable[i].pageNo] = bufPool[i].data
    /\ \A i \in Frames :
           bufDescTable[i].file # f =>
               bufDescTable'[i] = bufDescTable[i] /\ bufPool'[i] = bufPool[i]
    /\ \A k \in DOMAIN hashTable :
           k[1] # f => k \in DOMAIN hashTable' /\ hashTable'[k] = hashTable[k]

\* C9: after a successful flushFile(file) no frame is owned by the file, the hash
\* table has no entry of the file, every page of the file that was dirty in the
\* pool is in the file with its buffered content, and the frames of other files
\* are as they were.
C9_FlushFile ==
    [][(last'.op = "flushFile" /\ last'.exc = "none") =>
           FlushedOut(last'.flushed)]_vars

\* a flushFile wrote a page back and left another file's page in the pool
C9_Witness ==
    /\ last.op = "flushFile" /\ last.exc = "none" /\ last.wrote
    /\ \E i \in Frames : bufDescTable[i].valid
    /\ \A i \in Frames : bufDescTable[i].file # last.flushed

\* C10: a flushFile(file) that follows a successful flushFile(file) at once
\* succeeds, writes no page and changes neither the descriptors, the pool, the
\* hash table, the clock hand nor the files.
C10_FlushIdempotent ==
    [][(/\ last.op = "flushFile" /\ last.exc = "none"
        /\ last'.op = "flushFile" /\ last'.flushed = last.flushed) =>
           /\ last'.exc = "none" /\ ~last'.wrote
           /\ UNCHANGED <<bufDescTable, bufPool, hashTable, clockHand, disk>>]_vars

\* a file whose dirty page had been written out was flushed twice in a row
C10_Witness ==
    /\ last.again /\ last.exc = "none"
    /\ \E k \in Keys : /\ k[1] = last.flushed /\ ~Resident(k)
                       /\ committed[k] = "b" /\ disk[k[1]][k[2]] = "b"

\* what disposePage(f, p) does in each of its three cases
Disposed(f, p) ==
    LET k == <<f, p>>
    IN  IF Resident(k)
        THEN LET i == hashTable[k]
             IN  IF bufDescTable[i].pinCnt > 0
                 THEN /\ last'.exc = "PagePinned"
                      /\ UNCHANGED <<bufDescTable, bufPool, hashTable, disk>>
                 ELSE /\ last'.exc = "none"
                      /\ ~bufDescTable'[i].valid
                      /\ bufDescTable'[i].file = NULL
                      /\ k \notin DOMAIN hashTable'
                      /\ disk'[f][p] = NoData
                      /\ \A j \in Frames \ {i} : bufDescTable'[j] = bufDescTable[j]
        ELSE /\ last'.exc = "none"
             /\ UNCHANGED <<bufDescTable, bufPool, hashTable>>
             /\ disk'[f][p] = NoData

\* C11: disposePage on a resident pinned page throws PagePinnedException and
\* leaves the frame, the hash entry and the file's page as they were; on a
\* resident unpinned page it clears the frame, removes the hash entry and
\* deletes the page from the file; on a page that is not resident it changes no
\* frame and deletes the page from the file.
C11_DisposePage ==
    [][\A f \in Files, p \in PageIds :
           (last'.op = "disposePage" /\ DisposePage(f, p)) => Disposed(f, p)]_vars

\* a disposePage was refused because the page, which is in the file, is pinned
C11_Witness ==
    /\ last.op = "disposePage" /\ last.exc = "PagePinned"
    /\ \E i \in Frames : /\ bufDescTable[i].valid /\ bufDescTable[i].pinCnt > 0
                         /\ disk[bufDescTable[i].file][bufDescTable[i].pageNo] # NoData

\* the page numbers file f holds
PagesOf(d, f) == {p \in PageIds : d[f][p] # NoData}

\* C12: a readPage or allocPage that fails with BufferExceededException, or
\* because the file has no such page, leaves the descriptor table, the hash
\* table and the set of pages of every file exactly as they were before the call.
C12_LoadFailsBeforeMutating ==
    [][(last'.op \in Loads /\ last'.exc \in {"BufferExceeded", "InvalidPage"}) =>
           /\ bufDescTable' = bufDescTable
           /\ hashTable' = hashTable
           /\ \A f \in Files : PagesOf(disk', f) = PagesOf(disk, f)]_vars

\* C13: a flushFile that fails with PagePinnedException has written back,
\* cleared and unhashed no frame: the descriptor table, the hash table and the
\* files are exactly as they were before the call.
C13_FlushFailsBeforeMutating ==
    [][(last'.op = "flushFile" /\ last'.exc = "PagePinned") =>
           /\ bufDescTable' = bufDescTable
           /\ hashTable' = hashTable
           /\ disk' = disk]_vars

\* C14: destroying the buffer manager, from any reachable state, runs to
\* completion and leaves every page that was dirty in the pool in its owning
\* file with its buffered content.
C14_TeardownLosesNoData ==
    [][last'.op = "~BufMgr" =>
           /\ last'.exc = "none"
           /\ \A i \in Frames :
                  (bufDescTable[i].valid /\ bufDescTable[i].dirty) =>
                      disk'[bufDescTable[i].file][bufDescTable[i].pageNo]
                          = bufPool[i].data]_vars

\* the case of the second chance: A referenced, B not, both unpinned, no frame
\* invalid
SecondChanceCase(A, B) ==
    /\ \A i \in Frames : bufDescTable[i].valid
    /\ bufDescTable[A].refbit /\ bufDescTable[A].pinCnt = 0
    /\ ~bufDescTable[B].refbit /\ bufDescTable[B].pinCnt = 0

\* the step is a call that went through allocBuf
CalledAllocBuf == last'.op \in Loads /\ ~last'.hit

\* the number of advances after which a sweep from the present clock hand
\* visits frame i for the first time
VisitedAt(i) == ((i - clockHand - 1) % numBufs) + 1

Evictable(i) == bufDescTable[i].pinCnt = 0 /\ ~bufDescTable[i].refbit

\* C15 as stated: in the second-chance case a call to allocBuf clears A's
\* reference bit and evicts B, not A.
C15_ClearsAEvictsB ==
    [][\A A, B \in Frames : (SecondChanceCase(A, B) /\ CalledAllocBuf) =>
           /\ last'.evicted # "none" /\ clockHand' = B
           /\ bufDescTable'[A].valid /\ Key(bufDescTable'[A]) = Key(bufDescTable[A])
           /\ ~bufDescTable'[A].refbit]_vars

\* C15, amended: in the second-chance case a call to allocBuf evicts, within its
\* first pass, the first frame after the clock hand that is unpinned and
\* unreferenced; that frame is never A, and it is B when no other frame is
\* unpinned and unreferenced. A keeps its page, and its reference bit is cleared
\* exactly when the hand passes A before it reaches the victim.
C15_SecondChance ==
    [][\A A, B \in Frames : (SecondChanceCase(A, B) /\ CalledAllocBuf) =>
           LET v == clockHand'
           IN  /\ last'.evicted # "none"
               /\ Evictable(v)
               /\ \A i \in Frames : VisitedAt(i) < VisitedAt(v) => ~Evictable(i)
               /\ last'.advances = VisitedAt(v)
               /\ v # A
               /\ (\A i \in Frames \ {B} : ~Evictable(i)) => v = B
               /\ bufDescTable'[A].valid
               /\ Key(bufDescTable'[A]) = Key(bufDescTable[A])
               /\ bufDescTable'[A].refbit = ~(VisitedAt(A) < VisitedAt(v))]_vars

\* a sweep of two advances: it passed a referenced unpinned frame, whose
\* reference bit is now clear, and evicted the frame after it
C15_Witness ==
    /\ last.op \in Loads /\ last.evicted # "none" /\ last.advances = 2
    /\ \E A \in Frames : /\ A # clockHand
                         /\ VisitedAt(A) = numBufs - 1
                         /\ bufDescTable[A].valid /\ bufDescTable[A].pinCnt = 0
                         /\ ~bufDescTable[A].refbit

\* C16: allocBuf always terminates: it hands out a frame or raises
\* BufferExceededException after at least one and at most 2 * numBufs advances
\* of the clock hand.
C16_AllocBufTerminates ==
    (last.op \in Loads /\ ~last.hit) =>
        /\ last.advances >= 1
        /\ last.advances <= 2 * numBufs
        /\ last.exc \in {"none", "BufferExceeded", "InvalidPage"}

\* a sweep that gave up only after two full turns of a pool of two frames
C16_Witness ==
    /\ last.op \in Loads /\ last.exc = "BufferExceeded"
    /\ numBufs = 2 /\ last.advances = 2 * numBufs

\* C17: unPinPage on a page that has no entry in the hash table raises no error
\* and leaves every frame descriptor, the pool, the hash table, the clock hand
\* and the files unchanged.
C17_UnPinAbsentIsNoOp ==
    [][\A f \in Files, p \in PageIds, dirty \in BOOLEAN :
           (/\ last'.op = "unPinPage" /\ ~Resident(<<f, p>>)
            /\ UnPinPage(f, p, dirty)) =>
               /\ last'.exc = "none"
               /\ UNCHANGED <<bufDescTable, bufPool, hashTable, clockHand, disk>>]_vars

\* an unPinPage found no entry for its page while another page was pinned
C17_Witness ==
    /\ last.op = "unPinPage" /\ ~last.hit /\ last.exc = "none"
    /\ \E i \in Frames : Pinned(i)

\* what a readPage that finds page <<f, p>> in the pool does
HitEffect(f, p) ==
    LET i == hashTable[<<f, p>>]
    IN  /\ last'.exc = "none"
        /\ readPage(Begin, f, p).log = <<>>
        /\ bufDescTable' = [bufDescTable EXCEPT ![i].refbit = TRUE,
                                                ![i].pinCnt = @ + 1]
        /\ UNCHANGED <<bufPool, hashTable, clockHand, disk>>

\* what a successful unPinPage of the resident page <<f, p>> does
UnPinEffect(f, p, dirty) ==
    LET i == hashTable[<<f, p>>]
    IN  /\ unPinPage(Begin, f, p, dirty).log = <<>>
        /\ bufDescTable' = [bufDescTable EXCEPT ![i].pinCnt = @ - 1,
                                                ![i].dirty = @ \/ dirty]
        /\ UNCHANGED <<bufPool, hashTable, clockHand, disk>>

\* C18: a readPage hit does no file I/O and changes only the target frame's
\* refbit (to true) and pinCnt (plus one); a successful unPinPage changes only
\* the target frame's pinCnt (minus one) and sets its dirty flag when dirty is
\* passed, never clearing it. The pool's content, every other frame, the hash
\* table, the clock hand and the files are unchanged by both.
C18_HitAndUnPinEffects ==
    [][/\ \A f \in Files, p \in PageIds :
              (/\ last'.op = "readPage" /\ Resident(<<f, p>>)
               /\ ReadPage(f, p)) => HitEffect(f, p)
       /\ \A f \in Files, p \in PageIds, dirty \in BOOLEAN :
              (/\ last'.op = "unPinPage" /\ last'.exc = "none"
               /\ Resident(<<f, p>>)
               /\ UnPinPage(f, p, dirty)) => UnPinEffect(f, p, dirty)]_vars

\* a readPage found its page, dirty and unpinned, in the pool
C18_Witness ==
    /\ last.op = "readPage" /\ last.hit /\ last.exc = "none"
    /\ bufDescTable[fid].dirty /\ bufDescTable[fid].pinCnt = 1
    /\ bufDescTable[fid].refbit

\* C19: a frame that is not valid has no owner file, no page number, is neither
\* dirty nor referenced and holds no pin; so every frame with an owner file is
\* valid and flushFile never raises BadBufferException.
C19_InvalidFramesEmpty ==
    /\ \A i \in Frames :
           ~bufDescTable[i].valid =>
               /\ bufDescTable[i].file = NULL
               /\ bufDescTable[i].pageNo = INVALID_NUMBER
               /\ ~bufDescTable[i].dirty
               /\ ~bufDescTable[i].refbit
               /\ bufDescTable[i].pinCnt = 0
    /\ \A i \in Frames : bufDescTable[i].file # NULL => bufDescTable[i].valid
    /\ last.exc # "BadBuffer"

\* a flushFile emptied a frame that had held a page and met another file's frame
C19_Witness ==
    /\ last.op = "flushFile" /\ last.exc = "none"
    /\ \E i \in Frames : ~bufDescTable[i].valid /\ bufPool[i].num # INVALID_NUMBER
    /\ \E i \in Frames : bufDescTable[i].valid

====
